---- MODULE Spec2Model ----
(***************************************************************************)
(* The AdminOrders component (src/pages/admin/AdminOrders.jsx) as a state  *)
(* machine: the component's useState cells, the status of every order on   *)
(* the remote Orders Service, and the async handler invocations that are   *)
(* suspended on an `await`.  One action per event handler (with the        *)
(* re-render and the filter useEffect it causes) and one per response      *)
(* that resumes a suspended handler.                                       *)
(***************************************************************************)
EXTENDS Integers, Sequences, FiniteSets, TLC

\* ------------------------------------------------------------------ bounds
NumOrders == 3
MaxInFlight == 2
MaxPage == 2

\* ------------------------------------------------------- program constants
ITEMS_PER_PAGE == 10
STATUS_OPTIONS == <<"pending", "processing", "shipped", "delivered", "cancelled">>

Null == "null"
NoOrder == 0
NullStats == [isNull |-> TRUE]

OrderIds == 1..NumOrders

\* ------------------------------------------------------------------ inputs
\* What the user types or picks, and what the services answer.
FilterInputs == {"", STATUS_OPTIONS[1]}
SearchInputs == {"", "rice"}
DateRangeInputs == {<<Null, Null>>, <<"2024-01-01", Null>>, <<"2024-01-01", "2024-01-31">>}
SortSelectOptions ==
    { <<"createdAt", "desc">>, <<"createdAt", "asc">>,
      <<"totalAmount", "desc">>, <<"totalAmount", "asc">>,
      <<"user.name", "asc">>, <<"user.name", "desc">> }
SortHeaderFields == {"_id", "user.name", "totalAmount"}
StatusInputs == {STATUS_OPTIONS[1], STATUS_OPTIONS[3]}
RequestErrors == { [responseError |-> "Forbidden", message |-> "Request failed"] }
TotalInputs == {0, ITEMS_PER_PAGE, ITEMS_PER_PAGE + 1}
StatsObjects ==
    { [totalOrders |-> NumOrders, totalRevenue |-> 900, averageOrderValue |-> 300,
       statusBreakdown |-> [pending |-> NumOrders], dailyStats |-> <<1>>],
      [totalOrders |-> NumOrders] }

\* ----------------------------------------------------------------- helpers
RECURSIVE SetToSeq(_)
SetToSeq(S) ==
    IF S = {} THEN <<>>
    ELSE LET m == CHOOSE x \in S : \A y \in S : x <= y
         IN <<m>> \o SetToSeq(S \ {m})

Range(s) == { s[i] : i \in 1..Len(s) }

RECURSIVE Without(_, _)
Without(s, x) ==
    IF s = <<>> THEN <<>>
    ELSE IF Head(s) = x THEN Without(Tail(s), x)
    ELSE <<Head(s)>> \o Without(Tail(s), x)

RemoveAt(s, i) == SubSeq(s, 1, i - 1) \o SubSeq(s, i + 1, Len(s))

\* A page count that is never less than one.
CeilDivAtLeastOne(a, b) == IF a = 0 THEN 1 ELSE (a + b - 1) \div b

\* Math.ceil(total / ITEMS_PER_PAGE) for total >= 0
CeilDiv(a, b) == (a + b - 1) \div b

\* a || b on strings: the empty string is falsy
OrElse(a, b) == IF a = "" THEN b ELSE a

\* Date.prototype.toISOString
ToISOString(d) == d \o "T00:00:00.000Z"

\* obj.field || dflt on a response object that may lack the field
Field(obj, f, dflt) == IF f \in DOMAIN obj THEN obj[f] ELSE dflt

\* ------------------------------------------------------------------- state
VARIABLES
    orders, loading, error, startDate, endDate, orderStats, filterStatus,
    updatingStatus, currentPage, totalPages, exportLoading, statsLoading,
    searchTerm, sortField, sortOrder, selectedOrders, bulkActionLoading,
    server,   \* Orders Service: the status of every order
    tasks,    \* handler invocations suspended on an await (each with one
              \* request in flight), in the order the requests went out
    toasts    \* toasts shown by the last step, in order

vars ==
    << orders, loading, error, startDate, endDate, orderStats, filterStatus,
       updatingStatus, currentPage, totalPages, exportLoading, statsLoading,
       searchTerm, sortField, sortOrder, selectedOrders, bulkActionLoading,
       server, tasks, toasts >>

\* The state a step starts from, as one record that the handlers' statements
\* update in sequence; a step starts with nothing toasted.
Cur ==
    [ orders |-> orders, loading |-> loading, error |-> error,
      startDate |-> startDate, endDate |-> endDate, orderStats |-> orderStats,
      filterStatus |-> filterStatus, updatingStatus |-> updatingStatus,
      currentPage |-> currentPage, totalPages |-> totalPages,
      exportLoading |-> exportLoading, statsLoading |-> statsLoading,
      searchTerm |-> searchTerm, sortField |-> sortField, sortOrder |-> sortOrder,
      selectedOrders |-> selectedOrders, bulkActionLoading |-> bulkActionLoading,
      server |-> server, tasks |-> tasks, toasts |-> <<>> ]

Commit(c) ==
    /\ orders' = c.orders
    /\ loading' = c.loading
    /\ error' = c.error
    /\ startDate' = c.startDate
    /\ endDate' = c.endDate
    /\ orderStats' = c.orderStats
    /\ filterStatus' = c.filterStatus
    /\ updatingStatus' = c.updatingStatus
    /\ currentPage' = c.currentPage
    /\ totalPages' = c.totalPages
    /\ exportLoading' = c.exportLoading
    /\ statsLoading' = c.statsLoading
    /\ searchTerm' = c.searchTerm
    /\ sortField' = c.sortField
    /\ sortOrder' = c.sortOrder
    /\ selectedOrders' = c.selectedOrders
    /\ bulkActionLoading' = c.bulkActionLoading
    /\ server' = c.server
    /\ tasks' = c.tasks
    /\ toasts' = c.toasts

\* The filter values a render closes over (the dependency list of loadOrders).
QueryOf(c) ==
    [ status |-> c.filterStatus, search |-> c.searchTerm,
      startDate |-> c.startDate, endDate |-> c.endDate,
      sortField |-> c.sortField, sortOrder |-> c.sortOrder ]

\* ...(startDate && { startDate: startDate.toISOString() }), same for endDate
DateParams(q) ==
    (IF q.startDate # Null THEN [startDate |-> ToISOString(q.startDate)] ELSE <<>>)
    @@ (IF q.endDate # Null THEN [endDate |-> ToISOString(q.endDate)] ELSE <<>>)

ListParams(q, page) ==
    [ page |-> page, limit |-> ITEMS_PER_PAGE, status |-> q.status,
      search |-> q.search, sortField |-> q.sortField, sortOrder |-> q.sortOrder ]
    @@ DateParams(q)

\* Export parameters that carry the sort along with the filters.
ExportParamsWithSort(q) ==
    DateParams(q)
    @@ (IF q.status # "" THEN [status |-> q.status] ELSE <<>>)
    @@ (IF q.search # "" THEN [search |-> q.search] ELSE <<>>)
    @@ [sortField |-> q.sortField, sortOrder |-> q.sortOrder]

\* handleExportOrders: const params = {...}
ExportParams(q) ==
    DateParams(q)
    @@ (IF q.status # "" THEN [status |-> q.status] ELSE <<>>)
    @@ (IF q.search # "" THEN [search |-> q.search] ELSE <<>>)

Toast(c, type, msg) == [c EXCEPT !.toasts = Append(@, [type |-> type, msg |-> msg])]

\* Which screen the component renders.
View(c) ==
    IF c.loading /\ Len(c.orders) = 0 THEN "loading"
    ELSE IF c.error # Null /\ Len(c.orders) = 0 THEN "error"
    ELSE "main"

\* ------------------------------------------------------------- loadOrders
\* loadOrders up to its await: the flags are set and the request goes out.
LoadOrdersCall(c) == [c EXCEPT !.loading = TRUE, !.error = Null]

\* !response || !response.orders
InvalidListResponse(resp) == resp.kind = "null" \/ "orders" \notin DOMAIN resp.body

\* The request was rejected, or the response made loadOrders throw.
LoadOrdersThrows(resp) == resp.kind = "reject" \/ InvalidListResponse(resp)

\* A success path that leaves out setTotalPages.
LoadOrdersLoadedKeepsTotalPages(c, resp, page) ==
    [c EXCEPT !.orders = resp.body.orders,
              !.currentPage = page,
              !.error = Null,
              !.loading = FALSE]

\* loadOrders: the rest of the try block, and finally.
LoadOrdersLoaded(c, resp, page) ==
    [c EXCEPT !.orders = resp.body.orders,
              !.totalPages = CeilDiv(resp.body.total, ITEMS_PER_PAGE),
              !.currentPage = page,
              !.error = Null,
              !.loading = FALSE]

\* loadOrders: catch and finally.
LoadOrdersFailed(c, resp) ==
    LET msg == IF resp.kind = "reject" THEN resp.err.message
               ELSE "Invalid response format"
        c1 == [c EXCEPT !.error = OrElse(msg, "Failed to load orders")]
        c2 == Toast(c1, "error", "Failed to load orders")
    IN [c2 EXCEPT !.orders = <<>>, !.loading = FALSE]

\* A catch that clears the list only if it was already empty.
LoadOrdersSettleKeepsList(c, resp, page) ==
    IF LoadOrdersThrows(resp)
    THEN [LoadOrdersFailed(c, resp) EXCEPT !.orders = c.orders]
    ELSE LoadOrdersLoaded(c, resp, page)

\* setCurrentPage(page) moved in front of the response check.
LoadOrdersSettlePageFirst(c, resp, page) ==
    IF LoadOrdersThrows(resp)
    THEN [LoadOrdersFailed(c, resp) EXCEPT !.currentPage = page]
    ELSE LoadOrdersLoaded(c, resp, page)

\* A catch that calls loadOrders(page) again.
LoadOrdersSettleRetries(c, resp, page) ==
    IF LoadOrdersThrows(resp)
    THEN LET c1 == LoadOrdersFailed(c, resp)
         IN [LoadOrdersCall(c1) EXCEPT
                !.tasks = Append(@, [kind |-> "load", await |-> "getAllOrders",
                                     q |-> QueryOf(c), page |-> page, by |-> "retry"])]
    ELSE LoadOrdersLoaded(c, resp, page)

\* loadOrders after its await, for the response (or rejection) that arrived.
LoadOrdersSettle(c, resp, page) ==
    IF LoadOrdersThrows(resp)
    THEN LoadOrdersFailed(c, resp)
    ELSE LoadOrdersLoaded(c, resp, page)

\* ---------------------------------------------------------- loadOrderStats
\* loadOrderStats up to its await.
LoadOrderStatsCall(c) == [c EXCEPT !.statsLoading = TRUE, !.error = Null]

\* !response || typeof response !== 'object'
InvalidStatsResponse(resp) == resp.kind # "object"

\* A catch whose fallback snapshot is zero throughout.
LoadOrderStatsSettleZeroTotal(c, resp, ordersLen) ==
    IF resp.kind = "reject" \/ InvalidStatsResponse(resp)
    THEN LET errorMessage ==
                 IF resp.kind = "reject"
                 THEN OrElse(resp.err.responseError,
                             OrElse(resp.err.message, "Failed to load order statistics"))
                 ELSE "Invalid response format from stats API"
             c1 == Toast([c EXCEPT !.error = errorMessage], "error", errorMessage)
         IN [c1 EXCEPT !.orderStats =
                           [totalOrders |-> 0, totalRevenue |-> 0,
                            averageOrderValue |-> 0, statusBreakdown |-> <<>>,
                            dailyStats |-> <<>>],
                       !.statsLoading = FALSE]
    ELSE [c EXCEPT !.orderStats =
                       [totalOrders |-> Field(resp.body, "totalOrders", 0),
                        totalRevenue |-> Field(resp.body, "totalRevenue", 0),
                        averageOrderValue |-> Field(resp.body, "averageOrderValue", 0),
                        statusBreakdown |-> Field(resp.body, "statusBreakdown", <<>>),
                        dailyStats |-> Field(resp.body, "dailyStats", <<>>)],
                   !.statsLoading = FALSE]

\* loadOrderStats after its await, for the response (or rejection) that arrived.
LoadOrderStatsSettle(c, resp, ordersLen) ==
    IF resp.kind = "reject" \/ InvalidStatsResponse(resp)
    THEN LET errorMessage ==
                 IF resp.kind = "reject"
                 THEN OrElse(resp.err.responseError,
                             OrElse(resp.err.message, "Failed to load order statistics"))
                 ELSE "Invalid response format from stats API"
             c1 == Toast([c EXCEPT !.error = errorMessage], "error", errorMessage)
         IN [c1 EXCEPT !.orderStats =
                           [totalOrders |-> ordersLen, totalRevenue |-> 0,
                            averageOrderValue |-> 0, statusBreakdown |-> <<>>,
                            dailyStats |-> <<>>],
                       !.statsLoading = FALSE]
    ELSE [c EXCEPT !.orderStats =
                       [totalOrders |-> Field(resp.body, "totalOrders", 0),
                        totalRevenue |-> Field(resp.body, "totalRevenue", 0),
                        averageOrderValue |-> Field(resp.body, "averageOrderValue", 0),
                        statusBreakdown |-> Field(resp.body, "statusBreakdown", <<>>),
                        dailyStats |-> Field(resp.body, "dailyStats", <<>>)],
                   !.statsLoading = FALSE]

\* ------------------------------------------------------------- suspension
Spawn(c, task) == [c EXCEPT !.tasks = Append(@, task)]

\* `by` is the call site: "effect", "reset", "page" or "retry".
LoadTask(q, page, by) ==
    [kind |-> "load", await |-> "getAllOrders", q |-> q, page |-> page, by |-> by]

StatsTask(q, ordersLen) ==
    [kind |-> "stats", await |-> "getOrderStats", q |-> q, ordersLen |-> ordersLen]

\* The request a suspended handler is waiting for.
RequestOf(t) ==
    IF t.await = "getAllOrders"
    THEN [api |-> "getAllOrders", params |-> ListParams(t.q, t.page)]
    ELSE IF t.await = "getOrderStats"
    THEN [api |-> "getOrderStats", params |-> DateParams(t.q)]
    ELSE IF t.await = "exportOrders"
    THEN [api |-> "exportOrders", params |-> ExportParams(t.q)]
    ELSE [api |-> "updateOrderStatus",
          orderId |-> IF t.kind = "bulk" THEN t.orderIds[t.idx] ELSE t.orderId,
          status |-> t.newStatus]

\* A loadOrders that aborts the list requests still in flight.
StartLoadOrdersCancelsPrevious(c, q, page, by) ==
    LET kept == { i \in 1..Len(c.tasks) : c.tasks[i].kind # "load" }
        c1 == [c EXCEPT !.tasks = [j \in 1..Cardinality(kept) |->
                                      c.tasks[CHOOSE i \in kept :
                                                  Cardinality({k \in kept : k <= i}) = j]]]
    IN Spawn(LoadOrdersCall(c1), LoadTask(q, page, by))

\* A call of loadOrders(page) that nobody awaits.
StartLoadOrders(c, q, page, by) == Spawn(LoadOrdersCall(c), LoadTask(q, page, by))

\* A call of loadOrderStats() that nobody awaits; its closure holds the dates
\* and orders.length of the render it was created in.
StartLoadOrderStats(c, q, ordersLen) == Spawn(LoadOrderStatsCall(c), StatsTask(q, ordersLen))

\* useEffect(..., [startDate, endDate, filterStatus, searchTerm, sortField,
\* sortOrder]): runs after the render if a dependency changed.
FilterEffect(before, c) ==
    IF QueryOf(c) # before
    THEN StartLoadOrderStats(StartLoadOrders(c, QueryOf(c), 1, "effect"),
                             QueryOf(c), Len(c.orders))
    ELSE c

\* -------------------------------------------------------------------- Init
InitialState ==
    [ orders |-> <<>>, loading |-> TRUE, error |-> Null,
      startDate |-> Null, endDate |-> Null, orderStats |-> NullStats,
      filterStatus |-> "", updatingStatus |-> NoOrder,
      currentPage |-> 1, totalPages |-> 1,
      exportLoading |-> FALSE, statsLoading |-> FALSE,
      searchTerm |-> "", sortField |-> "createdAt", sortOrder |-> "desc",
      selectedOrders |-> <<>>, bulkActionLoading |-> FALSE,
      server |-> [i \in OrderIds |-> STATUS_OPTIONS[1]],
      tasks |-> <<>>, toasts |-> <<>> ]

\* The component after mounting: the effect has run once.
Mounted ==
    StartLoadOrderStats(StartLoadOrders(InitialState, QueryOf(InitialState), 1, "effect"),
                        QueryOf(InitialState), 0)

Init ==
    /\ orders = Mounted.orders
    /\ loading = Mounted.loading
    /\ error = Mounted.error
    /\ startDate = Mounted.startDate
    /\ endDate = Mounted.endDate
    /\ orderStats = Mounted.orderStats
    /\ filterStatus = Mounted.filterStatus
    /\ updatingStatus = Mounted.updatingStatus
    /\ currentPage = Mounted.currentPage
    /\ totalPages = Mounted.totalPages
    /\ exportLoading = Mounted.exportLoading
    /\ statsLoading = Mounted.statsLoading
    /\ searchTerm = Mounted.searchTerm
    /\ sortField = Mounted.sortField
    /\ sortOrder = Mounted.sortOrder
    /\ selectedOrders = Mounted.selectedOrders
    /\ bulkActionLoading = Mounted.bulkActionLoading
    /\ server = Mounted.server
    /\ tasks = Mounted.tasks
    /\ toasts = Mounted.toasts

CanSpawn(n) == Len(tasks) + n <= MaxInFlight

\* ------------------------------------------------- what the services answer
OrdersOf(ids, srv) == [i \in 1..Len(ids) |-> [id |-> ids[i], status |-> srv[ids[i]]]]

PageLists == { SetToSeq(S) : S \in SUBSET OrderIds }

ListResponsesOf(srv, lists, totals) ==
    { [kind |-> "reject", err |-> e] : e \in RequestErrors }
    \cup { [kind |-> "null"], [kind |-> "object", body |-> [total |-> 0]] }
    \cup { [kind |-> "object", body |-> [orders |-> OrdersOf(x[1], srv), total |-> x[2]]] :
             x \in { y \in lists \X totals : Len(y[1]) <= y[2] } }

ListResponses(srv) == ListResponsesOf(srv, PageLists, TotalInputs)

StatsResponses ==
    { [kind |-> "reject", err |-> e] : e \in RequestErrors }
    \cup { [kind |-> "null"] }
    \cup { [kind |-> "object", body |-> b] : b \in StatsObjects }

ExportResponses ==
    { [kind |-> "reject", err |-> e] : e \in RequestErrors }
    \cup { [kind |-> "empty"], [kind |-> "csv"] }

UpdateResponses ==
    { [kind |-> "reject", err |-> e] : e \in RequestErrors } \cup { [kind |-> "ok"] }

\* ------------------------------------------------------ handleStatusUpdate
\* The server applies the update the request asked for.
ServerApplies(c, orderId, newStatus) == [c EXCEPT !.server[orderId] = newStatus]

\* The select of a row: order.status || 'pending' is shown, onChange fires on
\* another option; the row is disabled while updatingStatus === order._id.
HandleStatusUpdate(orderId, newStatus) ==
    /\ View(Cur) = "main"
    /\ CanSpawn(1)
    /\ \E i \in 1..Len(orders) : orders[i].id = orderId /\ orders[i].status # newStatus
    /\ updatingStatus # orderId
    /\ LET c1 == [Cur EXCEPT !.updatingStatus = orderId]
       IN Commit(Spawn(c1, [kind |-> "status", await |-> "updateOrderStatus",
                            orderId |-> orderId, newStatus |-> newStatus,
                            q |-> QueryOf(Cur), page |-> currentPage,
                            ordersLen |-> Len(orders)]))

\* A handleStatusUpdate that leaves out `await loadOrders(currentPage)`.
StatusUpdateSettleStatsOnly(c, t, resp) ==
    IF resp.kind = "ok"
    THEN LET c1 == ServerApplies(c, t.orderId, t.newStatus)
             c2 == Toast(c1, "success", "Order status updated")
         IN Spawn(LoadOrderStatsCall(c2), [t EXCEPT !.await = "getOrderStats"])
    ELSE LET c1 == Toast(c, "error",
                         OrElse(resp.err.responseError, "Failed to update order status"))
         IN [c1 EXCEPT !.updatingStatus = NoOrder]

\* A handleStatusUpdate without its finally block.
StatusUpdateSettleNoFinally(c, t, resp) ==
    IF resp.kind = "ok"
    THEN LET c1 == ServerApplies(c, t.orderId, t.newStatus)
             c2 == Toast(c1, "success", "Order status updated")
         IN Spawn(LoadOrdersCall(c2), [t EXCEPT !.await = "getAllOrders"])
    ELSE Toast(c, "error",
               OrElse(resp.err.responseError, "Failed to update order status"))

\* handleStatusUpdate after `await ordersApi.updateOrderStatus` up to its next
\* await (success) or to its end (catch, finally).
StatusUpdateSettle(c, t, resp) ==
    IF resp.kind = "ok"
    THEN LET c1 == ServerApplies(c, t.orderId, t.newStatus)
             c2 == Toast(c1, "success", "Order status updated")
         IN Spawn(LoadOrdersCall(c2), [t EXCEPT !.await = "getAllOrders"])
    ELSE LET c1 == Toast(c, "error",
                         OrElse(resp.err.responseError, "Failed to update order status"))
         IN [c1 EXCEPT !.updatingStatus = NoOrder]

\* -------------------------------------------------- handleBulkStatusUpdate
\* A handler without the check of the empty selection: its loop over no ids
\* ends at once and the try block goes on to the reload.
HandleBulkStatusUpdateNoGuard(newStatus) ==
    /\ View(Cur) = "main"
    /\ ~bulkActionLoading
    /\ CanSpawn(1)
    /\ LET c1 == [Cur EXCEPT !.bulkActionLoading = TRUE]
           t == [kind |-> "bulk", await |-> "updateOrderStatus",
                 orderIds |-> selectedOrders, idx |-> 1,
                 newStatus |-> newStatus,
                 q |-> QueryOf(Cur), page |-> currentPage,
                 ordersLen |-> Len(orders)]
       IN IF Len(selectedOrders) = 0
          THEN LET c2 == Toast(c1, "success", "0 orders updated to " \o newStatus)
               IN Commit(Spawn(LoadOrdersCall(c2),
                               [t EXCEPT !.idx = 0, !.await = "getAllOrders"]))
          ELSE Commit(Spawn(c1, t))

HandleBulkStatusUpdate(newStatus) ==
    /\ View(Cur) = "main"
    /\ ~bulkActionLoading
    /\ IF Len(selectedOrders) = 0
       THEN Commit(Toast(Cur, "error", "No orders selected"))
       ELSE /\ CanSpawn(1)
            /\ LET c1 == [Cur EXCEPT !.bulkActionLoading = TRUE]
               IN Commit(Spawn(c1, [kind |-> "bulk", await |-> "updateOrderStatus",
                                    orderIds |-> selectedOrders, idx |-> 1,
                                    newStatus |-> newStatus,
                                    q |-> QueryOf(Cur), page |-> currentPage,
                                    ordersLen |-> Len(orders)]))

\* A success path that takes only the updated ids out of the selection.
BulkUpdateContinuesDropsUpdated(c, t) ==
    IF t.idx < Len(t.orderIds)
    THEN Spawn(c, [t EXCEPT !.idx = @ + 1])
    ELSE LET c1 == Toast(c, "success",
                         ToString(Len(t.orderIds)) \o " orders updated to "
                             \o t.newStatus)
             c2 == [c1 EXCEPT !.selectedOrders =
                                  SelectSeq(@, LAMBDA x : x \notin Range(t.orderIds))]
         IN Spawn(LoadOrdersCall(c2), [t EXCEPT !.await = "getAllOrders"])

\* A loop that steps over the id after the one just updated.
BulkUpdateContinuesSkipsNext(c, t) ==
    IF t.idx + 1 < Len(t.orderIds)
    THEN Spawn(c, [t EXCEPT !.idx = @ + 2])
    ELSE LET c1 == Toast(c, "success",
                         ToString(Len(t.orderIds)) \o " orders updated to "
                             \o t.newStatus)
             c2 == [c1 EXCEPT !.selectedOrders = <<>>]
         IN Spawn(LoadOrdersCall(c2), [t EXCEPT !.await = "getAllOrders"])

\* handleBulkStatusUpdate: the loop goes on to the next id, or the try block
\* goes on after the loop up to `await loadOrders(currentPage)`.
BulkUpdateContinues(c, t) ==
    IF t.idx < Len(t.orderIds)
    THEN Spawn(c, [t EXCEPT !.idx = @ + 1])
    ELSE LET c1 == Toast(c, "success",
                         ToString(Len(t.orderIds)) \o " orders updated to "
                             \o t.newStatus)
             c2 == [c1 EXCEPT !.selectedOrders = <<>>]
         IN Spawn(LoadOrdersCall(c2), [t EXCEPT !.await = "getAllOrders"])

\* handleBulkStatusUpdate: catch and finally.
BulkUpdateFailed(c) ==
    [Toast(c, "error", "Failed to update selected orders")
        EXCEPT !.bulkActionLoading = FALSE]

\* A finally that also clears the selection.
BulkUpdateSettleClearsSelection(c, t, resp) ==
    IF resp.kind = "ok"
    THEN BulkUpdateContinues(ServerApplies(c, t.orderIds[t.idx], t.newStatus), t)
    ELSE [BulkUpdateFailed(c) EXCEPT !.selectedOrders = <<>>]

\* A loop that catches the failure of one id and goes on with the next.
BulkUpdateSettleSkipsFailed(c, t, resp) ==
    IF resp.kind = "ok"
    THEN BulkUpdateContinues(ServerApplies(c, t.orderIds[t.idx], t.newStatus), t)
    ELSE BulkUpdateContinues(Toast(c, "error", "Failed to update selected orders"), t)

\* handleBulkStatusUpdate after one `await ordersApi.updateOrderStatus` of its
\* loop, up to the next await or to its end.
BulkUpdateSettle(c, t, resp) ==
    IF resp.kind = "ok"
    THEN BulkUpdateContinues(ServerApplies(c, t.orderIds[t.idx], t.newStatus), t)
    ELSE BulkUpdateFailed(c)

\* ------------------------------------------------------ handleExportOrders
HandleExportOrders ==
    /\ View(Cur) = "main"
    /\ ~exportLoading
    /\ CanSpawn(1)
    /\ LET c1 == [Cur EXCEPT !.exportLoading = TRUE, !.error = Null]
       IN Commit(Spawn(c1, [kind |-> "export", await |-> "exportOrders",
                            q |-> QueryOf(Cur)]))

ExportSettle(c, resp) ==
    IF resp.kind = "csv"
    THEN [Toast(c, "success", "Orders exported") EXCEPT !.exportLoading = FALSE]
    ELSE LET errorMessage ==
                 IF resp.kind = "reject"
                 THEN OrElse(resp.err.responseError,
                             OrElse(resp.err.message, "Failed to export orders"))
                 ELSE "No response received from export API"
             c1 == Toast([c EXCEPT !.error = errorMessage], "error", errorMessage)
         IN [c1 EXCEPT !.exportLoading = FALSE]

\* ------------------------------------------------------------- responses
\* The handler that was suspended on the request resumes and runs to its next
\* await or to its end.
Resume(c, t, resp) ==
    IF t.await = "getAllOrders"
    THEN LET c1 == LoadOrdersSettle(c, resp, t.page)
         IN IF t.kind = "load" THEN c1
            ELSE Spawn(LoadOrderStatsCall(c1), [t EXCEPT !.await = "getOrderStats"])
    ELSE IF t.await = "getOrderStats"
    THEN LET c1 == LoadOrderStatsSettle(c, resp, t.ordersLen)
         IN IF t.kind = "stats" THEN c1
            ELSE IF t.kind = "status" THEN [c1 EXCEPT !.updatingStatus = NoOrder]
            ELSE [c1 EXCEPT !.bulkActionLoading = FALSE]
    ELSE IF t.await = "updateOrderStatus"
    THEN IF t.kind = "status" THEN StatusUpdateSettle(c, t, resp)
         ELSE BulkUpdateSettle(c, t, resp)
    ELSE ExportSettle(c, resp)

Resolve(i, resp) ==
    Commit(Resume([Cur EXCEPT !.tasks = RemoveAt(tasks, i)], tasks[i], resp))

ListOrdersResponds ==
    \E i \in 1..Len(tasks) :
        /\ tasks[i].await = "getAllOrders"
        /\ \E resp \in ListResponses(server) : Resolve(i, resp)

GetStatsResponds ==
    \E i \in 1..Len(tasks) :
        /\ tasks[i].await = "getOrderStats"
        /\ \E resp \in StatsResponses : Resolve(i, resp)

UpdateStatusResponds ==
    \E i \in 1..Len(tasks) :
        /\ tasks[i].await = "updateOrderStatus"
        /\ \E resp \in UpdateResponses : Resolve(i, resp)

ExportResponds ==
    \E i \in 1..Len(tasks) :
        /\ tasks[i].await = "exportOrders"
        /\ \E resp \in ExportResponses : Resolve(i, resp)

\* -------------------------------------------------------------- pagination
\* renderPagination: drawn only when orders.length > 0.
PaginationShown == View(Cur) = "main" /\ Len(orders) > 0

LoadPage(page) ==
    /\ PaginationShown
    /\ page \in 1..MaxPage
    /\ CanSpawn(1)
    /\ Commit(StartLoadOrders(Cur, QueryOf(Cur), page, "page"))

PageFirst == currentPage # 1 /\ ~loading /\ LoadPage(1)

PagePrevious == currentPage # 1 /\ ~loading /\ LoadPage(currentPage - 1)

PageNumber == \E page \in 1..(IF totalPages < 5 THEN totalPages ELSE 5) : LoadPage(page)

PageNext == currentPage # totalPages /\ ~loading /\ LoadPage(currentPage + 1)

PageLast == currentPage # totalPages /\ ~loading /\ LoadPage(totalPages)

TryAgain ==
    /\ View(Cur) = "error"
    /\ CanSpawn(1)
    /\ Commit(StartLoadOrders(Cur, QueryOf(Cur), 1, "retry"))

\* ----------------------------------------------------------------- filters
SetSearchTerm(text) ==
    /\ View(Cur) = "main"
    /\ text # searchTerm
    /\ CanSpawn(2)
    /\ Commit(FilterEffect(QueryOf(Cur), [Cur EXCEPT !.searchTerm = text]))

\* DatePicker onChange: setDateRange(update); setCurrentPage(1)
SetDateRange(update) ==
    /\ View(Cur) = "main"
    /\ CanSpawn(2)
    /\ Commit(FilterEffect(QueryOf(Cur),
                           [Cur EXCEPT !.startDate = update[1], !.endDate = update[2],
                                       !.currentPage = 1]))

\* status select onChange: setFilterStatus(value); setCurrentPage(1)
SetFilterStatus(value) ==
    /\ View(Cur) = "main"
    /\ value # filterStatus
    /\ CanSpawn(2)
    /\ Commit(FilterEffect(QueryOf(Cur),
                           [Cur EXCEPT !.filterStatus = value, !.currentPage = 1]))

\* "Sort by" select onChange: const [field, order] = value.split('-')
SortSelect(option) ==
    /\ View(Cur) = "main"
    /\ option # <<sortField, sortOrder>>
    /\ CanSpawn(2)
    /\ Commit(FilterEffect(QueryOf(Cur),
                           [Cur EXCEPT !.sortField = option[1], !.sortOrder = option[2]]))

\* table header onClick: setSortField(f); setSortOrder(asc ? desc : asc)
SortHeader(field) ==
    /\ View(Cur) = "main"
    /\ Len(orders) > 0
    /\ CanSpawn(2)
    /\ Commit(FilterEffect(QueryOf(Cur),
                           [Cur EXCEPT !.sortField = field,
                                       !.sortOrder = IF sortOrder = "asc" THEN "desc"
                                                     ELSE "asc"]))

\* resetFilters: the setters, then loadOrders(1) and loadOrderStats() of the
\* render the click happened in, then the effect of the next render.
ResetFilters ==
    /\ View(Cur) = "main"
    /\ LET c1 == [Cur EXCEPT !.startDate = Null, !.endDate = Null,
                             !.filterStatus = "", !.searchTerm = "",
                             !.sortField = "createdAt", !.sortOrder = "desc",
                             !.currentPage = 1, !.selectedOrders = <<>>]
           c2 == StartLoadOrders(c1, QueryOf(Cur), 1, "reset")
           c3 == StartLoadOrderStats(c2, QueryOf(Cur), Len(orders))
           c4 == FilterEffect(QueryOf(Cur), c3)
       IN /\ Len(c4.tasks) <= MaxInFlight + 2
          /\ Commit(c4)

\* --------------------------------------------------------------- selection
ToggleOrderSelection(orderId) ==
    /\ View(Cur) = "main"
    /\ \E i \in 1..Len(orders) : orders[i].id = orderId
    /\ Commit([Cur EXCEPT !.selectedOrders =
                              IF orderId \in Range(@) THEN Without(@, orderId)
                              ELSE Append(@, orderId)])

ToggleAllOrders ==
    /\ View(Cur) = "main"
    /\ Len(orders) > 0
    /\ Commit([Cur EXCEPT !.selectedOrders =
                              IF Len(@) = Len(orders) THEN <<>>
                              ELSE [i \in 1..Len(orders) |-> orders[i].id]])

ClearSelection ==
    /\ View(Cur) = "main"
    /\ Len(selectedOrders) > 0
    /\ Commit([Cur EXCEPT !.selectedOrders = <<>>])

\* -------------------------------------------------------------------- Next
Next ==
    \/ ListOrdersResponds
    \/ GetStatsResponds
    \/ UpdateStatusResponds
    \/ ExportResponds
    \/ PageFirst
    \/ PagePrevious
    \/ PageNumber
    \/ PageNext
    \/ PageLast
    \/ TryAgain
    \/ \E text \in SearchInputs : SetSearchTerm(text)
    \/ \E update \in DateRangeInputs : SetDateRange(update)
    \/ \E value \in FilterInputs : SetFilterStatus(value)
    \/ \E option \in SortSelectOptions : SortSelect(option)
    \/ \E field \in SortHeaderFields : SortHeader(field)
    \/ ResetFilters
    \/ \E orderId \in OrderIds : ToggleOrderSelection(orderId)
    \/ ToggleAllOrders
    \/ ClearSelection
    \/ \E orderId \in OrderIds, newStatus \in StatusInputs :
           HandleStatusUpdate(orderId, newStatus)
    \/ \E newStatus \in StatusInputs : HandleBulkStatusUpdate(newStatus)
    \/ HandleExportOrders

Spec == Init /\ [][Next]_vars

\* ---------------------------------------------------------------- scenarios
\* The query side alone: filters, sorting, paging and reset, against a
\* service that answers with the empty page or the full one.
QueryPageLists == { <<>>, SetToSeq(OrderIds) }

ListOrdersRespondsQ ==
    \E i \in 1..Len(tasks) :
        /\ tasks[i].await = "getAllOrders"
        /\ \E resp \in ListResponsesOf(server, QueryPageLists, TotalInputs) :
               Resolve(i, resp)

\* The statistics service answers with its full snapshot or rejects.
GetStatsRespondsQ ==
    \E i \in 1..Len(tasks) :
        /\ tasks[i].await = "getOrderStats"
        /\ \E resp \in { r \in StatsResponses :
                           r.kind = "object" => "totalRevenue" \in DOMAIN r.body } \ {[kind |-> "null"]} :
               Resolve(i, resp)

NextQuery ==
    \/ ListOrdersRespondsQ
    \/ GetStatsRespondsQ
    \/ PageFirst
    \/ PagePrevious
    \/ PageNumber
    \/ PageNext
    \/ PageLast
    \/ TryAgain
    \/ \E text \in SearchInputs : SetSearchTerm(text)
    \/ \E update \in DateRangeInputs : SetDateRange(update)
    \/ \E value \in FilterInputs : SetFilterStatus(value)
    \/ \E option \in SortSelectOptions : SortSelect(option)
    \/ \E field \in SortHeaderFields : SortHeader(field)
    \/ ResetFilters

SpecQuery == Init /\ [][NextQuery]_vars

\* Selection and bulk status updates under the query the component starts
\* with, every update being to "shipped".  The list and statistics requests
\* succeed, every list spans two pages; only a status update may fail.
BulkPageLists == { <<>> } \cup { SetToSeq(OrderIds \ {x}) : x \in {1, NumOrders} }

ListOrdersRespondsB ==
    \E i \in 1..Len(tasks) :
        /\ tasks[i].await = "getAllOrders"
        /\ \E resp \in { r \in ListResponsesOf(server, BulkPageLists, {ITEMS_PER_PAGE + 1}) :
                           r.kind = "object" /\ "orders" \in DOMAIN r.body } :
               Resolve(i, resp)

GetStatsRespondsB ==
    \E i \in 1..Len(tasks) :
        /\ tasks[i].await = "getOrderStats"
        /\ \E resp \in { r \in StatsResponses :
                           r.kind = "object" /\ "totalRevenue" \in DOMAIN r.body } :
               Resolve(i, resp)

NextBulk ==
    \/ ListOrdersRespondsB
    \/ GetStatsRespondsB
    \/ UpdateStatusResponds
    \/ PageNumber
    \/ \E orderId \in OrderIds : ToggleOrderSelection(orderId)
    \/ ToggleAllOrders
    \/ ClearSelection
    \/ \E newStatus \in {STATUS_OPTIONS[3]} : HandleBulkStatusUpdate(newStatus)

SpecBulk == Init /\ [][NextBulk]_vars

\* Single status updates and paging under the query the component starts with.
ListOrdersRespondsS ==
    \E i \in 1..Len(tasks) :
        /\ tasks[i].await = "getAllOrders"
        /\ \E resp \in { r \in ListResponsesOf(server, QueryPageLists, TotalInputs) :
                           r.kind \in {"reject", "object"} /\ (r.kind = "object" => "orders" \in DOMAIN r.body) } :
               Resolve(i, resp)

NextStatus ==
    \/ ListOrdersRespondsS
    \/ GetStatsRespondsB
    \/ UpdateStatusResponds
    \/ PageFirst
    \/ PagePrevious
    \/ PageNumber
    \/ PageNext
    \/ PageLast
    \/ TryAgain
    \/ \E orderId \in OrderIds, newStatus \in StatusInputs :
           HandleStatusUpdate(orderId, newStatus)

SpecStatus == Init /\ [][NextStatus]_vars

\* Overlapping list requests: paging, the search text and reset, the only
\* filter being the search text; the statistics requests succeed.
NextRace ==
    \/ ListOrdersRespondsQ
    \/ GetStatsRespondsB
    \/ PageFirst
    \/ PagePrevious
    \/ PageNumber
    \/ PageNext
    \/ PageLast
    \/ TryAgain
    \/ \E text \in SearchInputs : SetSearchTerm(text)
    \/ ResetFilters

SpecRace == Init /\ [][NextRace]_vars

\* Selection, clearing and reset around bulk status updates, on one page:
\* every list request is answered with the one page of all orders.
ListOrdersRespondsL ==
    \E i \in 1..Len(tasks) :
        /\ tasks[i].await = "getAllOrders"
        /\ \E resp \in { r \in ListResponsesOf(server, {SetToSeq(OrderIds)}, {ITEMS_PER_PAGE}) :
                           r.kind = "object" /\ "orders" \in DOMAIN r.body } :
               Resolve(i, resp)

NextSelect ==
    \/ ListOrdersRespondsL
    \/ GetStatsRespondsB
    \/ UpdateStatusResponds
    \/ \E orderId \in OrderIds : ToggleOrderSelection(orderId)
    \/ ToggleAllOrders
    \/ ClearSelection
    \/ ResetFilters
    \/ \E newStatus \in {STATUS_OPTIONS[3]} : HandleBulkStatusUpdate(newStatus)

SpecSelect == Init /\ [][NextSelect]_vars

\* Export under changing filters, sort and page; every list request is
\* answered with the first page of a two-page result.
ListOrdersRespondsE ==
    \E i \in 1..Len(tasks) :
        /\ tasks[i].await = "getAllOrders"
        /\ \E resp \in { r \in ListResponsesOf(server, {SetToSeq(OrderIds)},
                                               {ITEMS_PER_PAGE + 1}) :
                           r.kind = "object" /\ "orders" \in DOMAIN r.body } :
               Resolve(i, resp)

NextExport ==
    \/ ListOrdersRespondsE
    \/ GetStatsRespondsB
    \/ ExportResponds
    \/ PageNumber
    \/ \E text \in SearchInputs : SetSearchTerm(text)
    \/ \E update \in DateRangeInputs : SetDateRange(update)
    \/ \E value \in FilterInputs : SetFilterStatus(value)
    \/ \E option \in SortSelectOptions : SortSelect(option)
    \/ HandleExportOrders

SpecExport == Init /\ [][NextExport]_vars

\* Every operation with requests that may fail, under the query the component
\* starts with: a list request is rejected or answered with the one page of
\* all orders, every other request is rejected or succeeds.
ListOrdersRespondsF ==
    \E i \in 1..Len(tasks) :
        /\ tasks[i].await = "getAllOrders"
        /\ \E resp \in { r \in ListResponsesOf(server, {SetToSeq(OrderIds)}, {ITEMS_PER_PAGE}) :
                           r.kind = "reject" \/ (r.kind = "object" /\ "orders" \in DOMAIN r.body) } :
               Resolve(i, resp)

NextErrors ==
    \/ ListOrdersRespondsF
    \/ GetStatsRespondsQ
    \/ UpdateStatusResponds
    \/ ExportResponds
    \/ TryAgain
    \/ \E orderId \in OrderIds, newStatus \in {STATUS_OPTIONS[3]} :
           HandleStatusUpdate(orderId, newStatus)
    \/ ToggleAllOrders
    \/ \E newStatus \in {STATUS_OPTIONS[3]} : HandleBulkStatusUpdate(newStatus)
    \/ HandleExportOrders

SpecErrors == Init /\ [][NextErrors]_vars

\* ------------------------------------------------------------------ claims
OrderIdsShown == { orders[i].id : i \in 1..Len(orders) }

QueryNow == QueryOf(Cur)

ViewNow == View(Cur)

IsPrefix(a, b) == Len(a) <= Len(b) /\ SubSeq(b, 1, Len(a)) = a

\* The requests the step sent that are still awaited after it.
NewTasks == SubSeq(tasks', Len(tasks) + 1, Len(tasks'))

RejectedResponses == { [kind |-> "reject", err |-> e] : e \in RequestErrors }

MalformedListResponses == { [kind |-> "null"], [kind |-> "object", body |-> [total |-> 0]] }

BulkFailedToast == <<[type |-> "error", msg |-> "Failed to update selected orders"]>>

LoadFailedToast == <<[type |-> "error", msg |-> "Failed to load orders"]>>

\* The step is the rejection of the status request a bulk update waits for.
BulkRequestFails(i) ==
    /\ tasks[i].kind = "bulk"
    /\ tasks[i].await = "updateOrderStatus"
    /\ \E resp \in RejectedResponses : Resolve(i, resp)

\* C1: in every reachable state the selected order ids are among the ids of
\* the orders of the last fetched page.
C1_SelectionWithinPage == Range(selectedOrders) \subseteq OrderIdsShown

\* C2 as stated: when a bulk update over three ids [A, B, C] fails at B, A
\* and C end in the new status on the server, B is unchanged, one aggregate
\* error is reported and the selection is empty afterwards.
C2_OthersUpdatedSelectionCleared ==
    [][\A i \in 1..Len(tasks) :
          (BulkRequestFails(i) /\ Len(tasks[i].orderIds) = 3 /\ tasks[i].idx = 2) =>
              LET t == tasks[i]
              IN /\ \A j \in 1..Len(t.orderIds) :
                        j # t.idx => server'[t.orderIds[j]] = t.newStatus
                 /\ server'[t.orderIds[t.idx]] = server[t.orderIds[t.idx]]
                 /\ toasts' = BulkFailedToast
                 /\ selectedOrders' = <<>>]_vars

\* C2 amended: when the status request of a bulk update fails for one id, the
\* ids before it are in the new status on the server, the failing id and the
\* ids after it are left as they were, one aggregate error is reported, and
\* the selection is left as it was (it is not cleared).
C2_EarlierUpdatedSelectionKept ==
    [][\A i \in 1..Len(tasks) :
          BulkRequestFails(i) =>
              LET t == tasks[i]
              IN /\ \A j \in 1..Len(t.orderIds) :
                        IF j < t.idx
                        THEN server'[t.orderIds[j]] = t.newStatus
                        ELSE server'[t.orderIds[j]] = server[t.orderIds[j]]
                 /\ toasts' = BulkFailedToast
                 /\ selectedOrders' = selectedOrders
                 /\ ~bulkActionLoading']_vars

\* A bulk update over three ids has just failed at the second one.
C2_Witness ==
    /\ toasts = BulkFailedToast
    /\ Len(selectedOrders) = 3
    /\ server[selectedOrders[1]] = STATUS_OPTIONS[3]
    /\ server[selectedOrders[2]] = STATUS_OPTIONS[1]
    /\ server[selectedOrders[3]] = STATUS_OPTIONS[1]
    /\ ~bulkActionLoading

\* C3: a bulk update is not atomic.  While it waits for the k-th status
\* request every id before the k-th has been updated; the server changes only
\* by the one awaited request succeeding; and when the k-th request fails the
\* operation ends there (no request for a later id is sent, no reload), with
\* exactly one toast, the aggregate error, that names no id.
C3_BulkStopsAtFirstFailure ==
    [][/\ \A i \in 1..Len(tasks') :
             (tasks'[i].kind = "bulk" /\ tasks'[i].await = "updateOrderStatus") =>
                 \A j \in 1..(tasks'[i].idx - 1) :
                     server'[tasks'[i].orderIds[j]] = tasks'[i].newStatus
       /\ server' # server =>
             \E i \in 1..Len(tasks) :
                 /\ tasks[i].await = "updateOrderStatus"
                 /\ server' = [server EXCEPT ![RequestOf(tasks[i]).orderId] =
                                                 tasks[i].newStatus]
                 /\ IsPrefix(RemoveAt(tasks, i), tasks')
       /\ \A i \in 1..Len(tasks) :
             BulkRequestFails(i) =>
                 /\ server' = server
                 /\ tasks' = RemoveAt(tasks, i)
                 /\ toasts' = BulkFailedToast
                 /\ ~bulkActionLoading']_vars

\* A bulk update has just failed partway: some of the selected ids are updated,
\* the rest are not.
C3_Witness ==
    /\ toasts = BulkFailedToast
    /\ \E k \in 2..Len(selectedOrders) :
           /\ \A j \in 1..(k - 1) : server[selectedOrders[j]] = STATUS_OPTIONS[3]
           /\ \A j \in k..Len(selectedOrders) : server[selectedOrders[j]] = STATUS_OPTIONS[1]
    /\ \A t \in Range(tasks) : t.kind # "bulk"

\* The step is the failure of the list request that task i waits for: a
\* rejection, or a response loadOrders rejects as malformed.
ListRequestFails(i) ==
    /\ tasks[i].await = "getAllOrders"
    /\ \E resp \in RejectedResponses \cup MalformedListResponses : Resolve(i, resp)

ListResponseMalformed(i) ==
    /\ tasks[i].await = "getAllOrders"
    /\ \E resp \in MalformedListResponses : Resolve(i, resp)

\* C4 as stated: when loadOrders fails an error state is set, a non-empty
\* order list is preserved, and the list is cleared only if it was empty.
C4_FailureKeepsNonEmptyList ==
    [][\A i \in 1..Len(tasks) :
          ListRequestFails(i) =>
              /\ tasks[i].kind = "load" => error' # Null
              /\ orders' = orders]_vars

\* C4 amended: when loadOrders fails, the order list is cleared whether or not
\* it was empty, loading ends false, a "Failed to load orders" toast is shown
\* and the error message is set; when the failed load is the reload made by a
\* status update, the loadOrderStats call that follows resets the message.
C4_FailureClearsList ==
    [][\A i \in 1..Len(tasks) :
          ListRequestFails(i) =>
              /\ orders' = <<>>
              /\ ~loading'
              /\ toasts' = LoadFailedToast
              /\ IF tasks[i].kind = "load"
                 THEN error' \in {"Request failed", "Invalid response format"}
                 ELSE error' = Null /\ statsLoading']_vars

\* A list request has just failed after an earlier one had brought a list of
\* two pages.
C4_Witness ==
    /\ toasts = LoadFailedToast
    /\ error = "Request failed"
    /\ orders = <<>>
    /\ totalPages = 2
    /\ ~loading

\* C5: a malformed list response (null, or without `orders`) is handled as a
\* request error: the list is cleared, the error message is set, loading ends
\* false, and currentPage and totalPages keep their values.
C5_MalformedResponseIsError ==
    [][\A i \in 1..Len(tasks) :
          ListResponseMalformed(i) =>
              /\ orders' = <<>>
              /\ tasks[i].kind = "load" => error' = "Invalid response format"
              /\ toasts' = LoadFailedToast
              /\ ~loading'
              /\ currentPage' = currentPage
              /\ totalPages' = totalPages]_vars

\* A malformed response has just been handled, on the second of two pages.
C5_Witness ==
    /\ error = "Invalid response format"
    /\ toasts = LoadFailedToast
    /\ orders = <<>>
    /\ ~loading
    /\ currentPage = 2
    /\ totalPages = 2

\* C6: once the load that a change of a filter field triggered has been
\* applied, successfully or not, the current page is 1.
C6_FilterChangeEndsOnPageOne ==
    [][\A i \in 1..Len(tasks) :
          (/\ tasks[i].kind = "load"
           /\ tasks[i].by = "effect"
           /\ \E resp \in ListResponses(server) : Resolve(i, resp))
          => currentPage' = 1]_vars

\* The step is one user action on the query: a filter, the search text, the
\* date range, the sort, or resetFilters.
QueryAction ==
    \/ \E text \in SearchInputs : SetSearchTerm(text)
    \/ \E update \in DateRangeInputs : SetDateRange(update)
    \/ \E value \in FilterInputs : SetFilterStatus(value)
    \/ \E option \in SortSelectOptions : SortSelect(option)
    \/ \E field \in SortHeaderFields : SortHeader(field)
    \/ ResetFilters

NewRequests(api) == { j \in 1..Len(NewTasks) : NewTasks[j].await = api }

\* C7: a user action that changes the query (or resetFilters) sends exactly one
\* list request and exactly one statistics request, both with the parameters
\* of the query as it is after the change.
C7_OneRequestPairPerChange ==
    [][(QueryAction /\ (QueryNow' # QueryNow \/ ResetFilters)) =>
          /\ Cardinality(NewRequests("getAllOrders")) = 1
          /\ Cardinality(NewRequests("getOrderStats")) = 1
          /\ \A j \in 1..Len(NewTasks) :
                 RequestOf(NewTasks[j]).params =
                     IF NewTasks[j].await = "getAllOrders"
                     THEN ListParams(QueryNow', 1)
                     ELSE DateParams(QueryNow')]_vars

\* The list responses loadOrders accepts, of those the query scenario's
\* service gives.
ValidListResponses ==
    { r \in ListResponsesOf(server, QueryPageLists, TotalInputs) :
        r.kind = "object" /\ "orders" \in DOMAIN r.body }

\* C8: overlapping loadOrders requests are neither cancelled nor de-duplicated
\* and the last response to resolve wins.  No step takes a request out of
\* flight other than the one response it handles; a page button sends a new
\* request whatever is already in flight; and whichever list request a valid
\* response arrives for, whatever query and page it was sent with, the order
\* list, the total-page count and the current page become those of that
\* response.
C8_LastResponseWins ==
    [][/\ \/ IsPrefix(tasks, tasks')
          \/ \E i \in 1..Len(tasks) : IsPrefix(RemoveAt(tasks, i), tasks')
       /\ \A page \in 1..MaxPage :
             LoadPage(page) => tasks' = Append(tasks, LoadTask(QueryNow, page, "page"))
       /\ \A i \in 1..Len(tasks) :
             (tasks[i].await = "getAllOrders" /\ IsPrefix(RemoveAt(tasks, i), tasks')) =>
                 \A resp \in ValidListResponses :
                     Resolve(i, resp) =>
                         /\ orders' = resp.body.orders
                         /\ totalPages' = CeilDiv(resp.body.total, ITEMS_PER_PAGE)
                         /\ currentPage' = tasks[i].page]_vars

\* Two list requests overlapped and the newer one has been answered: the
\* only list request still in flight was sent for a query that has since been
\* replaced, and loading is already false.
C8_Witness ==
    /\ ~loading
    /\ \E i \in 1..Len(tasks) :
           /\ tasks[i].kind = "load"
           /\ tasks[i].q # QueryNow
           /\ \A j \in 1..Len(tasks) : tasks[j].kind = "load" => j = i

\* C9: while the status request of handleStatusUpdate for an order is pending
\* that order is the one marked as updating, so that no second status request
\* for it is pending at the same time.
C9_PendingOrderMarkedUpdating ==
    \A i \in 1..Len(tasks) :
        (tasks[i].kind = "status" /\ tasks[i].await = "updateOrderStatus") =>
            /\ updatingStatus = tasks[i].orderId
            /\ \A j \in 1..Len(tasks) :
                   (/\ tasks[j].kind = "status"
                    /\ tasks[j].await = "updateOrderStatus"
                    /\ tasks[j].orderId = tasks[i].orderId) => j = i

\* The step is the failure of the statistics request that task i waits for.
StatsRequestFails(i) ==
    /\ tasks[i].await = "getOrderStats"
    /\ \E resp \in RejectedResponses \cup {[kind |-> "null"]} : Resolve(i, resp)

\* C10: a failed statistics request does not block the order list, and a
\* failed list request does not block the statistics.  When loadOrderStats
\* fails while the list (or the empty state) of a successful load is on
\* screen, it stays on screen; and when a list request fails, the statistics
\* requests in flight stay in flight and a snapshot is there afterwards.
C10_FailuresDoNotBlock ==
    [][/\ \A i \in 1..Len(tasks) :
             (StatsRequestFails(i) /\ ViewNow = "main" /\ ~loading) =>
                 /\ ViewNow' = "main"
                 /\ orders' = orders
       /\ \A i \in 1..Len(tasks) :
             (ListRequestFails(i) /\ tasks[i].kind = "load") =>
                 /\ tasks' = RemoveAt(tasks, i)
                 /\ orderStats' = orderStats]_vars

StatsRejectedToast == <<[type |-> "error", msg |-> "Forbidden"]>>

\* C11 as stated: when loadOrderStats fails the snapshot becomes zero-valued,
\* totalOrders included, and the error is surfaced.
C11_StatsFailureZeroSnapshot ==
    [][\A i \in 1..Len(tasks) :
          StatsRequestFails(i) =>
              /\ orderStats' = [totalOrders |-> 0, totalRevenue |-> 0,
                                averageOrderValue |-> 0, statusBreakdown |-> <<>>,
                                dailyStats |-> <<>>]
              /\ error' # Null
              /\ Len(toasts') = 1]_vars

\* C11 amended: when loadOrderStats fails, totalRevenue and averageOrderValue
\* become 0, statusBreakdown and dailyStats empty, and totalOrders becomes the
\* length the order list had in the render that made the call; the error
\* message is set and toasted, and statsLoading ends false.
C11_StatsFailureFallbackSnapshot ==
    [][\A i \in 1..Len(tasks) :
          StatsRequestFails(i) =>
              /\ orderStats' = [totalOrders |-> tasks[i].ordersLen, totalRevenue |-> 0,
                                averageOrderValue |-> 0, statusBreakdown |-> <<>>,
                                dailyStats |-> <<>>]
              /\ error' \in {"Forbidden", "Invalid response format from stats API"}
              /\ toasts' = <<[type |-> "error", msg |-> error']>>
              /\ ~statsLoading']_vars

\* A statistics request made while three orders were listed has just failed.
C11_Witness ==
    /\ toasts = StatsRejectedToast
    /\ error = "Forbidden"
    /\ orderStats = [totalOrders |-> NumOrders, totalRevenue |-> 0,
                     averageOrderValue |-> 0, statusBreakdown |-> <<>>,
                     dailyStats |-> <<>>]
    /\ ~statsLoading

\* The requests sent by the handler that a response resumed in this step
\* (the resumed invocation has left the in-flight list).
SentOnResume == SubSeq(tasks', Len(tasks), Len(tasks'))

\* The step is the success of the status request handleStatusUpdate waits for.
StatusRequestSucceeds(i) ==
    /\ tasks[i].kind = "status"
    /\ tasks[i].await = "updateOrderStatus"
    /\ Resolve(i, [kind |-> "ok"])

StatusRequestFails(i) ==
    /\ tasks[i].kind = "status"
    /\ tasks[i].await = "updateOrderStatus"
    /\ \E resp \in RejectedResponses : Resolve(i, resp)

\* The step is the arrival of the list response the reload of a status update
\* waits for.
StatusReloadResolves(i) ==
    /\ tasks[i].kind = "status"
    /\ tasks[i].await = "getAllOrders"
    /\ \E resp \in ListResponses(server) : Resolve(i, resp)

\* C12: a successful status update leaves the order list as it is and sends
\* exactly one list request, for the page and the filters that are current
\* when the update completes; the list response is followed by exactly one
\* statistics request; a failed status update sends nothing and leaves the
\* list unchanged.
C12_ReloadsCurrentPage ==
    [][\A i \in 1..Len(tasks) :
          /\ StatusRequestSucceeds(i) =>
                 /\ orders' = orders
                 /\ Len(SentOnResume) = 1
                 /\ RequestOf(SentOnResume[1]) =
                        [api |-> "getAllOrders",
                         params |-> ListParams(QueryNow, currentPage)]
          /\ StatusReloadResolves(i) =>
                 /\ Len(SentOnResume) = 1
                 /\ RequestOf(SentOnResume[1]).api = "getOrderStats"
          /\ StatusRequestFails(i) =>
                 /\ tasks' = RemoveAt(tasks, i)
                 /\ orders' = orders]_vars

\* The status requests of bulk updates that are in flight in a task list.
BulkRequests(ts) ==
    { i \in 1..Len(ts) : ts[i].kind = "bulk" /\ ts[i].await = "updateOrderStatus" }

\* C13: a bulk update sends its status requests one at a time, in the order of
\* the selection as it was when the update started.  At most one of them is in
\* flight; the first is for the first selected id; each later one is for the
\* next id of the same snapshot and is sent in the very step in which the
\* previous one succeeded.
C13_BulkOneRequestAtATime ==
    [][/\ Cardinality(BulkRequests(tasks')) <= 1
       /\ \A j \in BulkRequests(tasks') :
             IF BulkRequests(tasks) = {}
             THEN /\ tasks'[j].orderIds = selectedOrders
                  /\ tasks'[j].idx = 1
                  /\ tasks' = Append(tasks, tasks'[j])
             ELSE \A i \in BulkRequests(tasks) :
                      /\ tasks'[j].orderIds = tasks[i].orderIds
                      /\ \/ tasks'[j] = tasks[i]
                         \/ /\ tasks'[j].idx = tasks[i].idx + 1
                            /\ Resolve(i, [kind |-> "ok"])
       /\ \A j \in BulkRequests(tasks') :
             RequestOf(tasks'[j]) =
                 [api |-> "updateOrderStatus",
                  orderId |-> tasks'[j].orderIds[tasks'[j].idx],
                  status |-> tasks'[j].newStatus]]_vars

\* The third status request of a bulk update is in flight, the first two ids
\* are updated, and the selection has been changed since the update started.
C13_Witness ==
    \E i \in BulkRequests(tasks) :
        /\ tasks[i].idx = 3
        /\ server[tasks[i].orderIds[1]] = tasks[i].newStatus
        /\ server[tasks[i].orderIds[2]] = tasks[i].newStatus
        /\ selectedOrders # tasks[i].orderIds

\* The step is the success of the last status request of a bulk update.
BulkLastRequestSucceeds(i) ==
    /\ i \in BulkRequests(tasks)
    /\ tasks[i].idx = Len(tasks[i].orderIds)
    /\ Resolve(i, [kind |-> "ok"])

\* C14: the selection is empty after a bulk update all of whose status
\* requests succeeded, whatever the selection had become while the update was
\* in flight, and after Clear Selection and resetFilters.
C14_SelectionCleared ==
    [][/\ \A i \in 1..Len(tasks) : BulkLastRequestSucceeds(i) => selectedOrders' = <<>>
       /\ ClearSelection => selectedOrders' = <<>>
       /\ ResetFilters => selectedOrders' = <<>>]_vars

\* A bulk update of two orders has just succeeded and its reload is awaited.
C14_Witness ==
    /\ toasts = <<[type |-> "success", msg |-> "2 orders updated to shipped"]>>
    /\ selectedOrders = <<>>
    /\ bulkActionLoading
    /\ \E i \in 1..Len(tasks) : tasks[i].kind = "bulk" /\ tasks[i].await = "getAllOrders"

\* C15: a successful list response replaces the order list, the total-page
\* count and the current page together, all three from that one response and
\* the call it answers; and the total-page count is never written in any
\* other step.
C15_ListAndPageCountTogether ==
    [][/\ \A i \in 1..Len(tasks) :
             (tasks[i].await = "getAllOrders" /\ IsPrefix(RemoveAt(tasks, i), tasks')) =>
                 \A resp \in ValidListResponses :
                     Resolve(i, resp) =>
                         /\ orders' = resp.body.orders
                         /\ totalPages' = CeilDiv(resp.body.total, ITEMS_PER_PAGE)
                         /\ currentPage' = tasks[i].page
                         /\ ~loading'
       /\ totalPages' # totalPages =>
             \E i \in 1..Len(tasks) :
                 /\ tasks[i].await = "getAllOrders"
                 /\ \E resp \in ValidListResponses :
                        /\ Resolve(i, resp)
                        /\ orders' = resp.body.orders]_vars

\* The second page of a two-page result is on screen and nothing is in flight.
C15_Witness ==
    /\ Len(orders) = NumOrders
    /\ totalPages = 2
    /\ currentPage = 2
    /\ ~loading
    /\ error = Null
    /\ tasks = <<>>

\* C16: the export request carries the status filter, the search text and the
\* date range as they are when Export is clicked (each left out when unset)
\* and nothing else: no page, no limit, no sort field, no sort order.
C16_ExportParamsAreFilters ==
    [][HandleExportOrders =>
          /\ Len(NewTasks) = 1
          /\ RequestOf(NewTasks[1]).api = "exportOrders"
          /\ LET p == RequestOf(NewTasks[1]).params
             IN /\ DOMAIN p = {k \in {"status"} : filterStatus # ""}
                                  \cup {k \in {"search"} : searchTerm # ""}
                                  \cup {k \in {"startDate"} : startDate # Null}
                                  \cup {k \in {"endDate"} : endDate # Null}
                /\ filterStatus # "" => p.status = filterStatus
                /\ searchTerm # "" => p.search = searchTerm
                /\ startDate # Null => p.startDate = ToISOString(startDate)
                /\ endDate # Null => p.endDate = ToISOString(endDate)]_vars

\* An export request is in flight that was sent from page 2 of a list sorted
\* by amount, with a status filter, a search text and an open date range.
C16_Witness ==
    /\ currentPage = 2
    /\ sortField = "totalAmount"
    /\ \E i \in 1..Len(tasks) :
           /\ tasks[i].await = "exportOrders"
           /\ RequestOf(tasks[i]).params =
                  [status |-> "pending", search |-> "rice",
                   startDate |-> "2024-01-01T00:00:00.000Z"]

EmptyListResponse == [kind |-> "object", body |-> [orders |-> <<>>, total |-> 0]]

\* C17: a list response {orders: [], total: 0} is not an error.  After it the
\* order list is empty, error is null, loading is false, the total-page count
\* is 0, nothing is toasted, and the main screen (with its empty state and
\* without pagination) is rendered.
C17_EmptyResultIsNotAnError ==
    [][\A i \in 1..Len(tasks) :
          (tasks[i].await = "getAllOrders" /\ Resolve(i, EmptyListResponse)) =>
              /\ orders' = <<>>
              /\ error' = Null
              /\ ~loading'
              /\ totalPages' = 0
              /\ currentPage' = tasks[i].page
              /\ toasts' = <<>>
              /\ ViewNow' = "main"
              /\ ~PaginationShown']_vars

\* An empty result has been applied after a two-page one: the list is empty,
\* the page count is 0 and nothing is in flight.
C17_Witness ==
    /\ orders = <<>>
    /\ totalPages = 0
    /\ currentPage = 2
    /\ error = Null
    /\ ~loading
    /\ tasks = <<>>
    /\ ViewNow = "main"

\* What makes the handler awaiting a request of the given API take its catch
\* path: a rejection, or a response the handler itself refuses.
FailingResponses(api) ==
    RejectedResponses
    \cup (IF api = "getAllOrders" THEN MalformedListResponses
          ELSE IF api = "getOrderStats" THEN {[kind |-> "null"]}
          ELSE IF api = "exportOrders" THEN {[kind |-> "empty"]}
          ELSE {})

\* The step is the failure of the request that task i waits for.
RequestFails(i) == \E resp \in FailingResponses(tasks[i].await) : Resolve(i, resp)

\* The APIs awaited, and the kinds of handler suspended, in a task list.
AwaitedApis(ts) == { ts[i].await : i \in 1..Len(ts) }

SuspendedKinds(ts) == { ts[i].kind : i \in 1..Len(ts) }

\* C18: a failed request ends in the catch/finally of its operation, which
\* resets the operation's in-progress flag; an operation that does not go on
\* to a further await is over.  No in-progress flag is set after a step unless
\* a request of its operation is still in flight.
C18_FailureResetsFlag ==
    [][/\ \A i \in 1..Len(tasks) :
             RequestFails(i) =>
                 LET t == tasks[i]
                 IN /\ t.await = "getAllOrders" => ~loading'
                    /\ t.await = "getOrderStats" => ~statsLoading'
                    /\ t.await = "exportOrders" => ~exportLoading'
                    /\ (t.kind = "status" /\ t.await # "getAllOrders") =>
                           updatingStatus' = NoOrder
                    /\ (t.kind = "bulk" /\ t.await # "getAllOrders") =>
                           ~bulkActionLoading'
                    /\ (t.kind \in {"load", "stats", "export"} \/ t.await # "getAllOrders") =>
                           tasks' = RemoveAt(tasks, i)
       /\ loading' => "getAllOrders" \in AwaitedApis(tasks')
       /\ statsLoading' => "getOrderStats" \in AwaitedApis(tasks')
       /\ exportLoading' => "exportOrders" \in AwaitedApis(tasks')
       /\ updatingStatus' # NoOrder => "status" \in SuspendedKinds(tasks')
       /\ bulkActionLoading' => "bulk" \in SuspendedKinds(tasks')]_vars

\* A single status update has just been rejected: its toast is shown, no order
\* is marked as updating and nothing is in flight.
C18_Witness ==
    /\ toasts = StatsRejectedToast
    /\ error = Null
    /\ updatingStatus = NoOrder
    /\ ~loading
    /\ ~statsLoading
    /\ tasks = <<>>

\* C19 as stated: after a failed request no further request goes out until a
\* user action; the step that handles the failure sends nothing.
C19_FailureSendsNothing ==
    [][\A i \in 1..Len(tasks) : RequestFails(i) => tasks' = RemoveAt(tasks, i)]_vars

\* C19 amended: the step that handles a failed request never sends that
\* request again, nor any other list, status or export request.  It sends
\* nothing at all, except that a status update or bulk update whose reload
\* failed inside loadOrders goes on to its own `await loadOrderStats()` and
\* sends that one statistics request.
C19_NoAutomaticRetry ==
    [][\A i \in 1..Len(tasks) :
          RequestFails(i) =>
              LET t == tasks[i]
              IN IF t.kind \in {"status", "bulk"} /\ t.await = "getAllOrders"
                 THEN /\ tasks' = Append(RemoveAt(tasks, i), SentOnResume[1])
                      /\ RequestOf(SentOnResume[1]) =
                             [api |-> "getOrderStats", params |-> DateParams(t.q)]
                      /\ SentOnResume[1].kind = t.kind
                 ELSE tasks' = RemoveAt(tasks, i)]_vars

\* The reload of a status update has just failed and the update goes on with
\* its statistics request.
C19_Witness ==
    /\ toasts = LoadFailedToast
    /\ orders = <<>>
    /\ \E i \in 1..Len(tasks) :
           /\ tasks[i].kind = "status"
           /\ tasks[i].await = "getOrderStats"

\* C20: every statistics request a user action sends is scoped by the date
\* range alone: its parameters are exactly the start and end dates as they
\* are after the action, each left out when unset.
C20_StatsParamsAreCurrentDates ==
    [][\A j \in 1..Len(NewTasks) :
          NewTasks[j].await = "getOrderStats" =>
              LET p == RequestOf(NewTasks[j]).params
              IN /\ DOMAIN p = {k \in {"startDate"} : startDate' # Null}
                                   \cup {k \in {"endDate"} : endDate' # Null}
                 /\ startDate' # Null => p.startDate = ToISOString(startDate')
                 /\ endDate' # Null => p.endDate = ToISOString(endDate')]_vars

\* Everything a request of the given API may be answered with.
ResponsesTo(api) ==
    IF api = "getAllOrders" THEN ListResponses(server)
    ELSE IF api = "getOrderStats" THEN StatsResponses
    ELSE IF api = "exportOrders" THEN ExportResponses
    ELSE UpdateResponses

\* The step is the arrival of an answer, whatever it is, to the request that
\* task i waits for.
RequestResolves(i) == \E resp \in ResponsesTo(tasks[i].await) : Resolve(i, resp)

\* C21: a successful status update, and a bulk update after its last status
\* request succeeded, reload twice and in order: the step of the success sends
\* exactly one list request; the step in which that list request is answered
\* sends exactly one statistics request; and the answer to the statistics
\* request ends the operation.  A bulk update whose status request succeeded
\* for an id that is not the last sends the next status request and no reload.
C21_TwoReloadsInOrder ==
    [][\A i \in 1..Len(tasks) :
          LET t == tasks[i]
          IN /\ (StatusRequestSucceeds(i) \/ BulkLastRequestSucceeds(i)) =>
                    /\ Len(SentOnResume) = 1
                    /\ tasks' = Append(RemoveAt(tasks, i), SentOnResume[1])
                    /\ RequestOf(SentOnResume[1]).api = "getAllOrders"
                    /\ SentOnResume[1].kind = t.kind
             /\ (/\ i \in BulkRequests(tasks)
                 /\ t.idx < Len(t.orderIds)
                 /\ Resolve(i, [kind |-> "ok"])) =>
                    /\ tasks' = Append(RemoveAt(tasks, i), SentOnResume[1])
                    /\ RequestOf(SentOnResume[1]).api = "updateOrderStatus"
             /\ (t.kind \in {"status", "bulk"} /\ t.await = "getAllOrders"
                 /\ RequestResolves(i)) =>
                    /\ tasks' = Append(RemoveAt(tasks, i), SentOnResume[1])
                    /\ RequestOf(SentOnResume[1]).api = "getOrderStats"
                    /\ SentOnResume[1].kind = t.kind
             /\ (t.kind \in {"status", "bulk"} /\ t.await = "getOrderStats"
                 /\ RequestResolves(i)) =>
                    tasks' = RemoveAt(tasks, i)]_vars

\* A bulk update of all three orders has updated each of them, its list
\* reload has been answered and its statistics request is in flight.
C21_Witness ==
    \E i \in 1..Len(tasks) :
        /\ tasks[i].kind = "bulk"
        /\ tasks[i].await = "getOrderStats"
        /\ Len(tasks[i].orderIds) = NumOrders
        /\ \A j \in 1..Len(tasks[i].orderIds) :
               server[tasks[i].orderIds[j]] = tasks[i].newStatus
        /\ ~loading

\* C22: loading is true whenever at least one list request is in flight.
C22_LoadingWhileListInFlight == "getAllOrders" \in AwaitedApis(tasks) => loading

DefaultQuery == QueryOf(InitialState)
ListRequests(ts) == {i \in 1..Len(ts) : ts[i].await = "getAllOrders"}

\* C23: no list request issued by resetFilters carries the filter values from
\* before the reset (each is the default query, page 1), and when the response
\* to a request of resetFilters is the last to resolve, the filters still
\* being the default ones, the list and page shown are the response to the
\* default query.
C23_ResetShowsDefaultQuery == [][
    /\ ResetFilters =>
         \A k \in 1..Len(NewTasks) :
            NewTasks[k].await = "getAllOrders" => RequestOf(NewTasks[k]).params = ListParams(DefaultQuery, 1)
    /\ \A i \in ListRequests(tasks) : \A resp \in ValidListResponses :
         (tasks[i].by = "reset" /\ tasks' = <<>> /\ QueryNow = DefaultQuery /\ Resolve(i, resp))
            => (tasks[i].q = DefaultQuery /\ tasks[i].page = 1)
  ]_vars

\* C24: after every list response that loadOrders applies, the current page
\* lies within the pagination range, 1 <= currentPage <= max(1, totalPages).
C24_CurrentPageWithinRange ==
    [][\A i \in ListRequests(tasks) :
          IsPrefix(RemoveAt(tasks, i), tasks') =>
              \A resp \in ValidListResponses :
                  Resolve(i, resp) =>
                      /\ 1 <= currentPage'
                      /\ currentPage' <= (IF totalPages' > 1 THEN totalPages' ELSE 1)]_vars

\* C25: whenever nothing is in flight, the status shown for each loaded order
\* is its status on the server.
C25_ShownStatusIsServerStatus ==
    tasks = <<>> => \A k \in 1..Len(orders) : orders[k].status = server[orders[k].id]

\* C26: toggleAllOrders clears the selection if every loaded order is selected
\* and otherwise makes the selection exactly the ids of the loaded orders.
C26_ToggleAllByMembership ==
    [][ToggleAllOrders =>
          IF OrderIdsShown \subseteq Range(selectedOrders)
          THEN selectedOrders' = <<>>
          ELSE Range(selectedOrders') = OrderIdsShown]_vars

\* C27: handleBulkStatusUpdate with an empty selection sends no request and
\* leaves the order list, the selection, the page, the flags and the server
\* unchanged; it only reports the error 'No orders selected'.
C27_EmptySelectionOnlyReports ==
    [][\A newStatus \in StatusInputs :
          (Len(selectedOrders) = 0 /\ HandleBulkStatusUpdate(newStatus)) =>
              /\ tasks' = tasks
              /\ server' = server
              /\ orders' = orders
              /\ selectedOrders' = selectedOrders
              /\ currentPage' = currentPage
              /\ totalPages' = totalPages
              /\ bulkActionLoading' = bulkActionLoading
              /\ loading' = loading
              /\ error' = error
              /\ toasts' = <<[type |-> "error", msg |-> "No orders selected"]>>]_vars

\* The handler has just run with nothing selected while a list is shown.
C27_Witness ==
    /\ toasts = <<[type |-> "error", msg |-> "No orders selected"]>>
    /\ selectedOrders = <<>>
    /\ Len(orders) > 0
    /\ ~bulkActionLoading

====
